---- MODULE Spec2Model ----
(***************************************************************************)
(* Model of build_site.py, the static-site generator of                    *)
(* GeomechMotion/animations.                                               *)
(*                                                                         *)
(* A Python str is a sequence of characters; a character is a one-element  *)
(* token.  ASCII characters are written as themselves, the three non-ASCII *)
(* characters the model uses are named by their code point:                *)
(*   "U00E9" LATIN SMALL LETTER E WITH ACUTE, "U00C9" its capital,         *)
(*   "U0130" LATIN CAPITAL LETTER I WITH DOT ABOVE,                        *)
(*   "U0307" COMBINING DOT ABOVE.                                          *)
(***************************************************************************)
EXTENDS Integers, Sequences, FiniteSets, TLC

VARIABLES name, slug1, slug2, dphase,
          folder, videos, subdirs, lphase,
          tree, docs, docsExists, pc, raised, ci, si, subs, log, run, firstDocs, firstLog

vars == <<name, slug1, slug2, dphase,
          folder, videos, subdirs, lphase,
          tree, docs, docsExists, pc, raised, ci, si, subs, log, run, firstDocs, firstLog>>

dvars == <<name, slug1, slug2, dphase>>
lvars == <<folder, videos, subdirs, lphase>>
svars == <<tree, docs, docsExists, pc, raised, ci, si, subs, log, run, firstDocs, firstLog>>

-----------------------------------------------------------------------------
(* Bounds *)

MaxLen == 3

MaxEntries == 3

MaxTree == 4

-----------------------------------------------------------------------------
(* Characters: str methods of Python 3 on the characters the model uses *)

Digits == <<"0","1","2","3","4","5","6","7","8","9">>

UpperAZ == <<"A","B","C","D","E","F","G","H","I","J","K","L","M",
             "N","O","P","Q","R","S","T","U","V","W","X","Y","Z">>

LowerAZ == <<"a","b","c","d","e","f","g","h","i","j","k","l","m",
             "n","o","p","q","r","s","t","u","v","w","x","y","z">>

Range(s) == {s[i] : i \in 1..Len(s)}

IndexIn(s, c) == CHOOSE i \in 1..Len(s) : s[i] = c

\* ord(c): the code point
Ord(c) ==
    CASE c \in Range(Digits) -> 47 + IndexIn(Digits, c)
      [] c \in Range(UpperAZ) -> 64 + IndexIn(UpperAZ, c)
      [] c \in Range(LowerAZ) -> 96 + IndexIn(LowerAZ, c)
      [] c = " " -> 32
      [] c = "(" -> 40
      [] c = ")" -> 41
      [] c = "-" -> 45
      [] c = "." -> 46
      [] c = "/" -> 47
      [] c = "_" -> 95
      [] c = "U00C9" -> 201
      [] c = "U00E9" -> 233
      [] c = "U0130" -> 304
      [] c = "U0307" -> 775

\* str.isalnum() of one character: Unicode letters and digits, not only ASCII
isalnum(c) ==
    c \in Range(Digits) \cup Range(UpperAZ) \cup Range(LowerAZ)
          \cup {"U00C9", "U00E9", "U0130"}

\* str.isspace() of one character
isspace(c) == c = " "

\* str.lower() of one character; U+0130 lower-cases to two characters
lower_ch(c) ==
    CASE c \in Range(UpperAZ) -> <<LowerAZ[IndexIn(UpperAZ, c)]>>
      [] c = "U00C9" -> <<"U00E9">>
      [] c = "U0130" -> <<"i", "U0307">>
      [] OTHER -> <<c>>

\* str.title()/upper() of one character
upper_ch(c) ==
    CASE c \in Range(LowerAZ) -> <<UpperAZ[IndexIn(LowerAZ, c)]>>
      [] c = "U00E9" -> <<"U00C9">>
      [] OTHER -> <<c>>

RECURSIVE lower(_)
\* str.lower()
lower(s) == IF s = <<>> THEN <<>> ELSE lower_ch(Head(s)) \o lower(Tail(s))

\* str.capitalize(): first character upper-cased, the rest lower-cased
capitalize(s) ==
    IF s = <<>> THEN <<>> ELSE upper_ch(Head(s)) \o lower(Tail(s))

\* str.rfind(c): last 1-based position of c, 0 when absent
rfind(s, c) ==
    IF \E i \in 1..Len(s) : s[i] = c
    THEN CHOOSE i \in 1..Len(s) : s[i] = c /\ \A j \in (i+1)..Len(s) : s[j] # c
    ELSE 0

\* os.path.splitext(p)[0] (posixpath: sep "/", extsep "."); a name made of
\* leading dots only has no extension
splitext(p) ==
    LET sepIndex == rfind(p, "/")
        dotIndex == rfind(p, ".")
    IN IF dotIndex > sepIndex
          /\ \E k \in (sepIndex + 1)..(dotIndex - 1) : p[k] # "."
       THEN SubSeq(p, 1, dotIndex - 1)
       ELSE p

\* str.replace(old, new) for one-character old and new
replace_ch(s, old, new) ==
    [i \in 1..Len(s) |-> IF s[i] = old THEN new ELSE s[i]]

RECURSIVE replace_dd(_)
\* str.replace("--", "-"): one left-to-right pass over non-overlapping matches
replace_dd(s) ==
    IF Len(s) < 2 THEN s
    ELSE IF s[1] = "-" /\ s[2] = "-"
         THEN <<"-">> \o replace_dd(SubSeq(s, 3, Len(s)))
         ELSE <<s[1]>> \o replace_dd(Tail(s))

has_dd(s) == \E i \in 1..(Len(s) - 1) : s[i] = "-" /\ s[i+1] = "-"

RECURSIVE collapse(_)
\* while "--" in base: base = base.replace("--", "-")
collapse(s) == IF has_dd(s) THEN collapse(replace_dd(s)) ELSE s

PAGE == <<"p","a","g","e">>

slug_from_name(n) ==
    LET b0 == splitext(n)
        b1 == replace_ch(b0, " ", "-")
        b2 == [i \in 1..Len(b1) |->
                 IF isalnum(b1[i]) \/ b1[i] \in {"-", "_"} THEN b1[i] ELSE "-"]
        b3 == collapse(b2)
        b4 == lower(b3)
    IN IF b4 = <<>> THEN PAGE ELSE b4

RECURSIVE split(_)
\* str.split(): the maximal runs of non-whitespace characters
split(s) ==
    IF s = <<>> THEN <<>>
    ELSE IF isspace(Head(s)) THEN split(Tail(s))
    ELSE LET n == IF \E i \in 1..Len(s) : isspace(s[i])
                  THEN (CHOOSE i \in 1..Len(s) :
                          isspace(s[i]) /\ \A j \in 1..(i-1) : ~isspace(s[j])) - 1
                  ELSE Len(s)
         IN <<SubSeq(s, 1, n)>> \o split(SubSeq(s, n + 1, Len(s)))

RECURSIVE join_sp(_)
\* " ".join(words)
join_sp(ws) ==
    IF ws = <<>> THEN <<>>
    ELSE IF Len(ws) = 1 THEN ws[1]
    ELSE ws[1] \o <<" ">> \o join_sp(Tail(ws))

title_from_name(n) ==
    LET b0 == splitext(n)
        b1 == replace_ch(replace_ch(b0, "_", " "), "-", " ")
        ws == split(b1)
    IN join_sp([i \in 1..Len(ws) |-> capitalize(ws[i])])

-----------------------------------------------------------------------------
(* The Slug/Title Deriver applied to bounded names *)

Alphabet == {"a", "B", "2", "-", "_", " ", ".", "(", "/", "U00E9", "U0130"}

RECURSIVE StringsUpTo(_)
StringsUpTo(n) ==
    IF n = 0 THEN {<<>>}
    ELSE LET shorter == StringsUpTo(n - 1)
         IN shorter \cup {Append(s, c) : s \in {t \in shorter : Len(t) = n - 1},
                                         c \in Alphabet}

MyModelName == <<"M","y"," ","M","o","d","e","l"," ","(","v","2",")",".","m","p","4">>

TunnelExcavation == <<"T","u","n","n","e","l"," ","E","x","c","a","v","a","t","i","o","n">>

CrackName == <<"c","r","a","c","k","_","p","r","o","p","a","g","a","t","i","o","n",
               "-","v","2",".","m","p","4">>

Names == StringsUpTo(MaxLen) \cup {MyModelName, TunnelExcavation, CrackName}

DeriverIdle ==
    /\ name = <<>> /\ slug1 = <<>> /\ slug2 = <<>> /\ dphase = "off"

InitDeriver ==
    /\ name \in Names
    /\ slug1 = <<>>
    /\ slug2 = <<>>
    /\ dphase = "input"

\* slug_from_name(name)
Slugify ==
    /\ dphase = "input"
    /\ slug1' = slug_from_name(name)
    /\ dphase' = "slugged"
    /\ UNCHANGED <<name, slug2>>
    /\ UNCHANGED <<lvars, svars>>

\* slug_from_name applied to its own output
Reslug ==
    /\ dphase = "slugged"
    /\ slug2' = slug_from_name(slug1)
    /\ dphase' = "reslugged"
    /\ UNCHANGED <<name, slug1>>
    /\ UNCHANGED <<lvars, svars>>

-----------------------------------------------------------------------------
(* The filesystem lister *)

\* A directory entry: name, kind ("file" a regular file, "dir" a directory)
\* and, for a directory, its own entries in iterdir() order.
\* A folder is [exists, entries], entries in iterdir() order.

File(n) == [name |-> n, kind |-> "file", children |-> <<>>]

Dir(n, es) == [name |-> n, kind |-> "dir", children |-> es]

Missing == [exists |-> FALSE, entries |-> <<>>]

Folder(es) == [exists |-> TRUE, entries |-> es]

VIDEO_EXTS == { <<".","m","p","4">>, <<".","w","e","b","m">>, <<".","m","o","v">>,
                <<".","m","4","v">>, <<".","g","i","f">> }

\* pathlib.PurePath.suffix: from the last dot, unless that dot is the first
\* or the last character of the name
suffix(n) ==
    LET d == rfind(n, ".")
    IN IF 1 < d /\ d < Len(n) THEN SubSeq(n, d, Len(n)) ELSE <<>>

RECURSIVE str_lt(_, _)
\* a < b on str: lexicographic by code point
str_lt(a, b) ==
    IF b = <<>> THEN FALSE
    ELSE IF a = <<>> THEN TRUE
    ELSE IF Ord(Head(a)) # Ord(Head(b)) THEN Ord(Head(a)) < Ord(Head(b))
    ELSE str_lt(Tail(a), Tail(b))

\* key=lambda x: x.name.lower()
name_key(e) == lower(e.name)

RECURSIVE insert_by_key(_, _)
\* e goes after every element whose key is not greater: the sort is stable
insert_by_key(srt, e) ==
    IF srt = <<>> THEN <<e>>
    ELSE IF str_lt(name_key(e), name_key(Head(srt))) THEN <<e>> \o srt
    ELSE <<Head(srt)>> \o insert_by_key(Tail(srt), e)

RECURSIVE sorted_from(_, _)
sorted_from(srt, rest) ==
    IF rest = <<>> THEN srt
    ELSE sorted_from(insert_by_key(srt, Head(rest)), Tail(rest))

\* sorted(xs, key=lambda x: x.name.lower())
sorted_by_name(xs) == sorted_from(<<>>, xs)

\* f.is_file() and f.suffix.lower() in VIDEO_EXTS
is_video_file(e) == e.kind = "file" /\ lower(suffix(e.name)) \in VIDEO_EXTS

\* d.is_dir()
is_dir(e) == e.kind = "dir"

\* the same listing with the suffix compared as spelled, not lower-cased
list_video_files_casesens(fld) ==
    IF ~fld.exists THEN <<>>
    ELSE LET spelled(e) == e.kind = "file" /\ suffix(e.name) \in VIDEO_EXTS
         IN sorted_by_name(SelectSeq(fld.entries, spelled))

list_video_files(fld) ==
    IF ~fld.exists THEN <<>>
    ELSE sorted_by_name(SelectSeq(fld.entries, is_video_file))

list_subfolders(fld) ==
    IF ~fld.exists THEN <<>>
    ELSE sorted_by_name(SelectSeq(fld.entries, is_dir))

B_mp4 == <<"B",".","m","p","4">>

a_MP4 == <<"a",".","M","P","4">>

A_MP4 == <<"A",".","M","P","4">>

c_txt == <<"c",".","t","x","t">>

dot_mp4 == <<".","m","p","4">>

clip_GIF == <<"c","l","i","p",".","G","I","F">>

ListerNames == {B_mp4, a_MP4, A_MP4, c_txt, dot_mp4, clip_GIF}

ListerEntries == {File(n) : n \in ListerNames} \cup {Dir(n, <<>>) : n \in ListerNames}

RECURSIVE EntrySeqs(_, _)
\* the sequences of at most n entries of pool with pairwise different names
EntrySeqs(pool, n) ==
    IF n = 0 THEN {<<>>}
    ELSE LET shorter == EntrySeqs(pool, n - 1)
         IN shorter \cup
            {Append(s, e) : s \in {t \in shorter : Len(t) = n - 1},
                            e \in pool}

DistinctNames(es) == \A i, j \in 1..Len(es) : i # j => es[i].name # es[j].name

FolderStates ==
    {Missing} \cup
    {Folder(es) : es \in {x \in EntrySeqs(ListerEntries, MaxEntries) : DistinctNames(x)}}

ListerIdle ==
    /\ folder = Missing /\ videos = <<>> /\ subdirs = <<>> /\ lphase = {"off"}

InitLister ==
    /\ folder \in FolderStates
    /\ videos = <<>>
    /\ subdirs = <<>>
    /\ lphase = {}

ListVideoFiles ==
    /\ "off" \notin lphase
    /\ "videos" \notin lphase
    /\ videos' = list_video_files(folder)
    /\ lphase' = lphase \cup {"videos"}
    /\ UNCHANGED <<folder, subdirs>>
    /\ UNCHANGED <<dvars, svars>>

ListSubfolders ==
    /\ "off" \notin lphase
    /\ "subs" \notin lphase
    /\ subdirs' = list_subfolders(folder)
    /\ lphase' = lphase \cup {"subs"}
    /\ UNCHANGED <<folder, videos>>
    /\ UNCHANGED <<dvars, svars>>

-----------------------------------------------------------------------------
(* Configuration *)

BASE_URL == <<"/","a","n","i","m","a","t","i","o","n","s">>

CATEGORIES ==
    << [slug |-> <<"c","o","n","s","t","i","t","u","t","i","v","e","-",
                   "m","o","d","e","l","s">>,
        title |-> <<"C","o","n","s","t","i","t","u","t","i","v","e"," ",
                    "M","o","d","e","l","s">>],
       [slug |-> <<"p","l","a","x","i","s">>,
        title |-> <<"P","L","A","X","I","S">>],
       [slug |-> <<"u","n","d","e","r","g","r","a","d","u","a","t","e">>,
        title |-> <<"U","n","d","e","r","g","r","a","d","u","a","t","e">>] >>

NCat == Len(CATEGORIES)

DotHtml == <<".","h","t","m","l">>

Slash == <<"/">>

IndexHtml == <<"i","n","d","e","x",".","h","t","m","l">>

TemplateTop == <<"_","t","e","m","p","l","a","t","e","_","t","o","p",".","h","t","m","l">>

TemplateBottom == <<"_","t","e","m","p","l","a","t","e","_","b","o","t","t","o","m",
                    ".","h","t","m","l">>

AssetsVideos == <<"/","a","s","s","e","t","s","/","v","i","d","e","o","s","/">>

-----------------------------------------------------------------------------
(* Pages.  A file of docs/ holds a sequence of chunks; a template fragment  *)
(* is one chunk of opaque text, a generated body is one chunk.  Fixed text  *)
(* of the f-strings is written as one token.                                *)

Link(href, label) == [href |-> href, label |-> label]

Chunk(h1, p, hasUl, ul, blocks, nav) ==
    [h1 |-> h1, p |-> p, hasUl |-> hasUl, ul |-> ul, blocks |-> blocks, nav |-> nav]

Raw(text) == Chunk(<<>>, <<text>>, FALSE, <<>>, <<>>, <<>>)

VideoBlock(src, title) ==
    [tag |-> "section", src |-> src, text |-> <<"Animation: ">> \o title]

Para(text) == [tag |-> "p", src |-> <<>>, text |-> <<text>>]

HomeHref == BASE_URL \o Slash \o IndexHtml

\* the links of an index that lists every configured category, its directory
\* existing or not
index_links_all(t) ==
    [k \in 1..NCat |->
       Link(BASE_URL \o Slash \o CATEGORIES[k].slug \o DotHtml, CATEGORIES[k].title)]

\* the links of make_index_page: one per configured category whose directory exists
index_links(t) ==
    LET exists(i) == t[i].exists
        idx == SelectSeq([i \in 1..NCat |-> i], exists)
    IN [k \in 1..Len(idx) |->
          Link(BASE_URL \o Slash \o CATEGORIES[idx[k]].slug \o DotHtml,
               CATEGORIES[idx[k]].title)]

index_body(t) ==
    Chunk(<<"GeomechMotion - Numerical Modelling Animations">>,
          <<"Select a category to explore animations:">>,
          TRUE, index_links(t), <<>>, <<>>)

\* a category body that shows the directory's own media files below the links
\* to its subfolders
category_body_both(cat_slug, cat_title, cat_dir) ==
    LET subfolders == list_subfolders(cat_dir)
        vids == list_video_files(cat_dir)
        blocks == [k \in 1..Len(vids) |->
                     VideoBlock(BASE_URL \o AssetsVideos \o cat_slug \o Slash
                                  \o vids[k].name,
                                title_from_name(vids[k].name))]
    IN Chunk(cat_title, <<>>, subfolders # <<>>,
             [k \in 1..Len(subfolders) |->
                Link(BASE_URL \o Slash \o cat_slug \o Slash
                       \o slug_from_name(subfolders[k].name) \o DotHtml,
                     title_from_name(subfolders[k].name))],
             IF blocks = <<>> /\ subfolders = <<>>
             THEN <<Para("No videos available yet.")>> ELSE blocks,
             <<Link(HomeHref, <<"Back to home">>)>>)

\* the body of make_category_page
category_body(cat_slug, cat_title, cat_dir) ==
    LET subfolders == list_subfolders(cat_dir)
    IN IF subfolders # <<>>
       THEN Chunk(cat_title, <<>>, TRUE,
                  [k \in 1..Len(subfolders) |->
                     Link(BASE_URL \o Slash \o cat_slug \o Slash
                            \o slug_from_name(subfolders[k].name) \o DotHtml,
                          title_from_name(subfolders[k].name))],
                  <<>>,
                  <<Link(HomeHref, <<"Back to home">>)>>)
       ELSE LET vids == list_video_files(cat_dir)
                blocks == [k \in 1..Len(vids) |->
                             VideoBlock(BASE_URL \o AssetsVideos \o cat_slug \o Slash
                                          \o vids[k].name,
                                        title_from_name(vids[k].name))]
            IN Chunk(cat_title, <<>>, FALSE, <<>>,
                     IF blocks = <<>> THEN <<Para("No videos available yet.")>>
                                      ELSE blocks,
                     <<Link(HomeHref, <<"Back to home">>)>>)

\* the body of make_subcategory_page
subcategory_body(cat_slug, cat_title, subfolder) ==
    LET vids == list_video_files(Folder(subfolder.children))
        blocks == [k \in 1..Len(vids) |->
                     VideoBlock(BASE_URL \o AssetsVideos \o cat_slug \o Slash
                                  \o subfolder.name \o Slash \o vids[k].name,
                                title_from_name(vids[k].name))]
    IN Chunk(title_from_name(subfolder.name),
             <<"Category: ">> \o cat_title,
             FALSE, <<>>,
             IF blocks = <<>> THEN <<Para("No videos available.")>> ELSE blocks,
             <<Link(BASE_URL \o Slash \o cat_slug \o DotHtml,
                    <<"Back to ">> \o cat_title),
               Link(HomeHref, <<"Home">>)>>)

\* Output paths, relative to DOCS_DIR
index_path == <<IndexHtml>>

category_path(cat_slug) == <<cat_slug \o DotHtml>>

subcategory_path(cat_slug, subfolder) ==
    <<cat_slug, slug_from_name(subfolder.name) \o DotHtml>>

\* a write that appends to a file already there
write_html_append(d, path, content) ==
    [q \in DOMAIN d \cup {path} |->
       IF q = path THEN (IF path \in DOMAIN d THEN d[path] \o content ELSE content)
       ELSE d[q]]

\* write_html: the file at path holds content, whatever it held before
write_html(d, path, content) ==
    [q \in DOMAIN d \cup {path} |-> IF q = path THEN content ELSE d[q]]

\* read_template succeeds on both fragments
templates_readable(d) == <<TemplateTop>> \in DOMAIN d /\ <<TemplateBottom>> \in DOMAIN d

\* full = template_top + body + template_bottom
full_page(d, body) == d[<<TemplateTop>>] \o <<body>> \o d[<<TemplateBottom>>]

-----------------------------------------------------------------------------
(* The input trees under assets/videos, bounded by their number of entries *)

tunnel_excavation == <<"t","u","n","n","e","l","-","e","x","c","a","v","a","t","i","o","n">>

stage1_mp4 == <<"s","t","a","g","e","1",".","m","p","4">>

SubNames == {TunnelExcavation, tunnel_excavation, <<"D","a","m">>}

FileNames == {stage1_mp4, a_MP4, c_txt}

FileEntries == {File(n) : n \in FileNames}

\* the sequences of exactly k files with pairwise different names
FileSeqsOfLen(k) ==
    {x \in EntrySeqs(FileEntries, k) : Len(x) = k /\ DistinctNames(x)}

\* the number of directories and files an entry stands for, itself included
EntryWeight(e) == 1 + Len(e.children)

\* the entries a category directory can hold, by weight
EntriesOfWeight(k) ==
    IF k = 1 THEN FileEntries \cup {Dir(n, <<>>) : n \in SubNames}
    ELSE {Dir(n, fs) : n \in SubNames, fs \in FileSeqsOfLen(k - 1)}

RECURSIVE EntrySeqsOfWeight(_)
\* the entry sequences (iterdir() orders) of total weight w, names pairwise different
EntrySeqsOfWeight(w) ==
    IF w = 0 THEN {<<>>}
    ELSE UNION { UNION { {Append(x, e) :
                            x \in {y \in EntrySeqsOfWeight(w - k) :
                                     \A i \in 1..Len(y) : y[i].name # e.name}} :
                         e \in EntriesOfWeight(k) } :
                 k \in 1..w }

RECURSIVE SumWeights(_)
SumWeights(es) ==
    IF es = <<>> THEN 0 ELSE EntryWeight(Head(es)) + SumWeights(Tail(es))

\* the number of directories and files of a category directory, itself included
Weight(fld) == IF fld.exists THEN 1 + SumWeights(fld.entries) ELSE 0

CatStatesOfWeight(w) ==
    IF w = 0 THEN {Missing}
    ELSE {Folder(es) : es \in EntrySeqsOfWeight(w - 1)}

CatStatesTable == [w \in 0..MaxTree |-> CatStatesOfWeight(w)]

Trees ==
    UNION { {<<a, b, c>> : a \in CatStatesTable[w[1]],
                           b \in CatStatesTable[w[2]],
                           c \in CatStatesTable[w[3]]} :
            w \in {v \in [1..3 -> 0..MaxTree] : v[1] + v[2] + v[3] <= MaxTree} }

TopText == <<Raw("<header>")>>

BottomText == <<Raw("<footer>")>>

\* docs/ before the first run: the template fragments that are there
InitialDocs ==
    { [q \in tp |-> IF q = <<TemplateTop>> THEN TopText ELSE BottomText] :
        tp \in SUBSET {<<TemplateTop>>, <<TemplateBottom>>} }

SiteIdle ==
    /\ tree = <<>> /\ docs = <<>> /\ docsExists = FALSE /\ pc = "off"
    /\ raised = "none"
    /\ ci = 0 /\ si = 0 /\ subs = <<>> /\ log = <<>> /\ run = 0
    /\ firstDocs = <<>> /\ firstLog = <<>>

InitSite ==
    /\ tree \in Trees
    /\ docs \in InitialDocs
    /\ docsExists \in {b \in BOOLEAN : DOMAIN docs # {} => b}
    /\ pc = "start"
    /\ raised = "none"
    /\ ci = 0 /\ si = 0 /\ subs = <<>> /\ log = <<>>
    /\ run = 1
    /\ firstDocs = <<>> /\ firstLog = <<>>

\* a page is about to be produced
PagePending ==
    \/ pc = "start"
    \/ pc = "cats" /\ ci <= NCat /\ tree[ci].exists
    \/ pc = "subs" /\ si <= Len(subs)

\* main: DOCS_DIR.mkdir, then make_index_page
MakeIndexPage ==
    /\ pc = "start"
    /\ templates_readable(docs)
    /\ docsExists' = TRUE
    /\ docs' = write_html(docs, index_path, full_page(docs, index_body(tree)))
    /\ log' = Append(log, index_path)
    /\ pc' = "cats"
    /\ ci' = 1
    /\ UNCHANGED <<tree, raised, si, subs, run, firstDocs, firstLog>>
    /\ UNCHANGED <<dvars, lvars>>

\* a loop without the existence test: the absent category gets its page
SkipCategory_writes ==
    /\ pc = "cats"
    /\ ci <= NCat
    /\ ~tree[ci].exists
    /\ templates_readable(docs)
    /\ docs' = write_html(docs, category_path(CATEGORIES[ci].slug),
                          full_page(docs, category_body(CATEGORIES[ci].slug,
                                                        CATEGORIES[ci].title,
                                                        tree[ci])))
    /\ log' = Append(log, category_path(CATEGORIES[ci].slug))
    /\ ci' = ci + 1
    /\ UNCHANGED <<tree, docsExists, pc, raised, si, subs, run, firstDocs, firstLog>>
    /\ UNCHANGED <<dvars, lvars>>

\* main: if not cat_dir.exists(): continue
SkipCategory ==
    /\ pc = "cats"
    /\ ci <= NCat
    /\ ~tree[ci].exists
    /\ ci' = ci + 1
    /\ UNCHANGED <<tree, docs, docsExists, pc, raised, si, subs, log, run, firstDocs, firstLog>>
    /\ UNCHANGED <<dvars, lvars>>

\* main: make_category_page(slug, title), then list_subfolders(cat_dir) for the loop
MakeCategoryPage ==
    /\ pc = "cats"
    /\ ci <= NCat
    /\ tree[ci].exists
    /\ templates_readable(docs)
    /\ docs' = write_html(docs, category_path(CATEGORIES[ci].slug),
                          full_page(docs, category_body(CATEGORIES[ci].slug,
                                                        CATEGORIES[ci].title,
                                                        tree[ci])))
    /\ log' = Append(log, category_path(CATEGORIES[ci].slug))
    /\ subs' = list_subfolders(tree[ci])
    /\ si' = 1
    /\ pc' = "subs"
    /\ UNCHANGED <<tree, docsExists, raised, ci, run, firstDocs, firstLog>>
    /\ UNCHANGED <<dvars, lvars>>

\* main: make_subcategory_page(slug, title, sub)
MakeSubcategoryPage ==
    /\ pc = "subs"
    /\ si <= Len(subs)
    /\ templates_readable(docs)
    /\ docs' = write_html(docs, subcategory_path(CATEGORIES[ci].slug, subs[si]),
                          full_page(docs, subcategory_body(CATEGORIES[ci].slug,
                                                           CATEGORIES[ci].title,
                                                           subs[si])))
    /\ log' = Append(log, subcategory_path(CATEGORIES[ci].slug, subs[si]))
    /\ si' = si + 1
    /\ UNCHANGED <<tree, docsExists, pc, raised, ci, subs, run, firstDocs, firstLog>>
    /\ UNCHANGED <<dvars, lvars>>

\* main: the subfolder loop of a category is exhausted
NextCategory ==
    /\ pc = "subs"
    /\ si > Len(subs)
    /\ ci' = ci + 1
    /\ pc' = "cats"
    /\ UNCHANGED <<tree, docs, docsExists, raised, si, subs, log, run, firstDocs, firstLog>>
    /\ UNCHANGED <<dvars, lvars>>

\* main: the category loop is exhausted, "DONE" is printed
Finish ==
    /\ pc = "cats"
    /\ ci > NCat
    /\ pc' = "done"
    /\ UNCHANGED <<tree, docs, docsExists, raised, ci, si, subs, log, run, firstDocs, firstLog>>
    /\ UNCHANGED <<dvars, lvars>>

\* read_template raises (the fragment is missing or unreadable): nothing catches it
ReadTemplateFails ==
    /\ PagePending
    /\ raised' = "read"
    /\ pc' = "aborted"
    /\ docsExists' = TRUE
    /\ UNCHANGED <<tree, docs, ci, si, subs, log, run, firstDocs, firstLog>>
    /\ UNCHANGED <<dvars, lvars>>

\* a write failure that is caught and passed over: the run goes on
WriteHtmlFails_swallowed ==
    /\ PagePending
    /\ templates_readable(docs)
    /\ raised = "none"
    /\ raised' = "write"
    /\ docsExists' = TRUE
    /\ UNCHANGED <<tree, docs, pc, ci, si, subs, log, run, firstDocs, firstLog>>
    /\ UNCHANGED <<dvars, lvars>>

\* write_html raises (mkdir or write_text): nothing catches it
WriteHtmlFails ==
    /\ PagePending
    /\ templates_readable(docs)
    /\ raised' = "write"
    /\ pc' = "aborted"
    /\ docsExists' = TRUE
    /\ UNCHANGED <<tree, docs, ci, si, subs, log, run, firstDocs, firstLog>>
    /\ UNCHANGED <<dvars, lvars>>

\* main is run again on the same tree
Rerun ==
    /\ pc = "done"
    /\ run = 1
    /\ run' = 2
    /\ firstDocs' = docs
    /\ firstLog' = log
    /\ log' = <<>>
    /\ pc' = "start"
    /\ ci' = 0 /\ si' = 0 /\ subs' = <<>>
    /\ UNCHANGED <<tree, docs, docsExists, raised>>
    /\ UNCHANGED <<dvars, lvars>>

-----------------------------------------------------------------------------
(* Specifications *)

NextDeriver == Slugify \/ Reslug

InitD == InitDeriver /\ ListerIdle /\ SiteIdle

SpecDeriver == InitD /\ [][NextDeriver]_vars

NextLister == ListVideoFiles \/ ListSubfolders

InitL == InitLister /\ DeriverIdle /\ SiteIdle

SpecLister == InitL /\ [][NextLister]_vars

Init == InitSite /\ DeriverIdle /\ ListerIdle

Next ==
    \/ MakeIndexPage
    \/ SkipCategory
    \/ MakeCategoryPage
    \/ MakeSubcategoryPage
    \/ NextCategory
    \/ Finish
    \/ ReadTemplateFails
    \/ WriteHtmlFails
    \/ Rerun

Spec == Init /\ [][Next]_vars

-----------------------------------------------------------------------------
(* Properties of the Slug/Title Deriver, under SpecDeriver *)

SlugChars == Range(LowerAZ) \cup Range(Digits) \cup {"-", "_"}

Slugged == dphase \in {"slugged", "reslugged"}

\* C1: for every name, slug_from_name(name) is non-empty, lower-case, made only
\* of a-z, 0-9, '-' and '_', and has no two adjacent hyphens; the slug of a
\* name that leaves nothing is "page".
C1_SlugWellFormed ==
    Slugged =>
        /\ slug1 # <<>>
        /\ name = <<>> => slug1 = <<"p","a","g","e">>
        /\ \A i \in 1..Len(slug1) : slug1[i] \in SlugChars
        /\ \A i \in 1..(Len(slug1) - 1) : ~(slug1[i] = "-" /\ slug1[i+1] = "-")

\* C2: slug_from_name("My Model (v2).mp4") is exactly "my-model-v2", with no
\* hyphen left at the end.
C2_MyModelSlug ==
    (Slugged /\ name = MyModelName) =>
        slug1 = <<"m","y","-","m","o","d","e","l","-","v","2">>

\* C3: slug_from_name is idempotent: slugging the slug of any name gives the
\* slug back.
C3_SlugIdempotent ==
    dphase = "reslugged" => slug2 = slug1

-----------------------------------------------------------------------------
(* Properties of the lister, under SpecLister *)

\* the name ends, case-insensitively, in a recognized extension that is not
\* the whole name
HasMediaExt(n) ==
    \E ext \in VIDEO_EXTS :
        /\ Len(n) > Len(ext)
        /\ lower(SubSeq(n, Len(n) - Len(ext) + 1, Len(n))) = ext

Ascending(es) ==
    \A i, j \in 1..Len(es) : i < j => ~str_lt(lower(es[j].name), lower(es[i].name))

NoRepeats(es) == \A i, j \in 1..Len(es) : i # j => es[i] # es[j]

\* C6: list_video_files gives the empty sequence for a missing folder and
\* otherwise exactly the regular files with a recognized extension (compared
\* case-insensitively), ascending by lower-cased name; list_subfolders gives
\* the empty sequence for a missing folder and otherwise exactly the
\* directories, in the same order; B.mp4, a.MP4, c.txt list as a.MP4, B.mp4.
C6_Listing ==
    /\ "videos" \in lphase =>
          /\ ~folder.exists => videos = <<>>
          /\ folder.exists =>
                /\ Range(videos) = {e \in Range(folder.entries) :
                                      e.kind = "file" /\ HasMediaExt(e.name)}
                /\ NoRepeats(videos)
                /\ Ascending(videos)
          /\ (folder.exists /\ Range(folder.entries) = {File(B_mp4), File(a_MP4), File(c_txt)})
                => videos = <<File(a_MP4), File(B_mp4)>>
    /\ "subs" \in lphase =>
          /\ ~folder.exists => subdirs = <<>>
          /\ folder.exists =>
                /\ Range(subdirs) = {e \in Range(folder.entries) : e.kind = "dir"}
                /\ NoRepeats(subdirs)
                /\ Ascending(subdirs)

\* the folder of the example has been listed, and so has a folder holding a
\* directory
C6_Witness ==
    /\ lphase = {"videos", "subs"}
    /\ folder = Folder(<<File(B_mp4), File(a_MP4), File(c_txt)>>)
    /\ videos = <<File(a_MP4), File(B_mp4)>>

-----------------------------------------------------------------------------
(* Properties of a run of main, under Spec *)

\* the generated body of the page at path
BodyOf(path) == docs[path][Len(docs[<<TemplateTop>>]) + 1]

CatSlug(i) == CATEGORIES[i].slug

CatPagePath(i) == <<CatSlug(i) \o DotHtml>>

SubPagePath(i, S) == <<CatSlug(i), slug_from_name(S.name) \o DotHtml>>

SubDirsOf(i) == {e \in Range(tree[i].entries) : e.kind = "dir"}

MediaOf(es) == {e \in Range(es) : e.kind = "file" /\ HasMediaExt(e.name)}

VideoSrc(i, S, f) ==
    BASE_URL \o AssetsVideos \o CatSlug(i) \o Slash \o S.name \o Slash \o f.name

\* C4: after a complete run, for every subfolder S of an existing category C,
\* the category page links to {base_url}/C/{slug(S)}.html labelled title(S) and
\* the file at C/{slug(S)}.html is S's own page: one video block per media file
\* of S, with S's and the file's raw names in the source and the caption
\* "Animation: {title}".
C4_SubfolderPages ==
    pc = "done" =>
        \A i \in 1..NCat : tree[i].exists =>
            \A S \in SubDirsOf(i) :
                /\ \E k \in 1..Len(BodyOf(CatPagePath(i)).ul) :
                      BodyOf(CatPagePath(i)).ul[k] =
                          Link(BASE_URL \o Slash \o CatSlug(i) \o Slash
                                 \o slug_from_name(S.name) \o DotHtml,
                               title_from_name(S.name))
                /\ SubPagePath(i, S) \in DOMAIN docs
                /\ {b \in Range(BodyOf(SubPagePath(i, S)).blocks) : b.tag = "section"}
                     = {VideoBlock(VideoSrc(i, S, f), title_from_name(f.name)) :
                          f \in MediaOf(S.children)}

\* C5: the body of a category page has one of three shapes: with subfolders,
\* one link per subfolder and no video block; with no subfolder and some media
\* files, one video block per media file in listing order; with neither, the
\* placeholder "No videos available yet." and no video block.  Every shape has
\* the back-link to {base_url}/index.html.
C5_CategoryShapes ==
    \A i \in 1..NCat : (CatPagePath(i) \in DOMAIN docs /\ tree[i].exists) =>
        LET body == BodyOf(CatPagePath(i))
            nsub == Cardinality(SubDirsOf(i))
            media == MediaOf(tree[i].entries)
            listing == list_video_files(tree[i])
        IN /\ nsub > 0 =>
                /\ Len(body.ul) = nsub
                /\ {l.href : l \in Range(body.ul)} =
                     {BASE_URL \o Slash \o CatSlug(i) \o Slash
                        \o slug_from_name(S.name) \o DotHtml : S \in SubDirsOf(i)}
                /\ body.blocks = <<>>
           /\ (nsub = 0 /\ media # {}) =>
                /\ body.ul = <<>>
                /\ Len(body.blocks) = Cardinality(media)
                /\ \A k \in 1..Len(body.blocks) :
                      body.blocks[k] =
                          VideoBlock(BASE_URL \o AssetsVideos \o CatSlug(i) \o Slash
                                       \o listing[k].name,
                                     title_from_name(listing[k].name))
           /\ (nsub = 0 /\ media = {}) =>
                /\ body.ul = <<>>
                /\ body.blocks = <<Para("No videos available yet.")>>
           /\ \E k \in 1..Len(body.nav) : body.nav[k].href = HomeHref

\* a category page was written for a directory holding a subfolder and a media
\* file of its own
C5_Witness ==
    \E i \in 1..NCat :
        /\ CatPagePath(i) \in Range(log)
        /\ SubDirsOf(i) # {}
        /\ MediaOf(tree[i].entries) # {}

RECURSIVE ExpectedWrites(_)
\* the pages of categories i..NCat in the order main is to write them
ExpectedWrites(i) ==
    IF i > NCat THEN <<>>
    ELSE IF ~tree[i].exists THEN ExpectedWrites(i + 1)
    ELSE LET ds == list_subfolders(tree[i])
         IN <<CatPagePath(i)>>
              \o [k \in 1..Len(ds) |-> SubPagePath(i, ds[k])]
              \o ExpectedWrites(i + 1)

IsPrefix(a, b) == Len(a) <= Len(b) /\ SubSeq(b, 1, Len(a)) = a

\* C7: a run writes index.html first, then for each configured category whose
\* directory exists, in CATEGORIES order, its category page followed by its
\* subfolder pages in case-insensitive name order; it writes no other page, and
\* nothing for a category whose directory is absent.
C7_WriteOrder ==
    /\ IsPrefix(log, <<<<IndexHtml>>>> \o ExpectedWrites(1))
    /\ pc = "done" => log = <<<<IndexHtml>>>> \o ExpectedWrites(1)

\* a run completed over two existing categories around an absent one, or over a
\* category with two subfolders
C7_Witness ==
    /\ pc = "done"
    /\ Len(log) >= 4
    /\ \E i \in 1..NCat : ~tree[i].exists

RECURSIVE ExpectedIndexLinks(_)
ExpectedIndexLinks(i) ==
    IF i > NCat THEN <<>>
    ELSE (IF tree[i].exists
          THEN <<Link(BASE_URL \o Slash \o CatSlug(i) \o DotHtml, CATEGORIES[i].title)>>
          ELSE <<>>) \o ExpectedIndexLinks(i + 1)

\* C9: the index page lists exactly the configured categories whose directory
\* exists, in CATEGORIES order, each linking to {base_url}/{slug}.html under
\* the category title; the categories linked are those main writes a page for.
C9_IndexLinks ==
    /\ <<IndexHtml>> \in Range(log) =>
          BodyOf(<<IndexHtml>>).ul = ExpectedIndexLinks(1)
    /\ pc = "done" =>
          {i \in 1..NCat : \E k \in 1..Len(BodyOf(<<IndexHtml>>).ul) :
                              BodyOf(<<IndexHtml>>).ul[k].href
                                = BASE_URL \o Slash \o CatSlug(i) \o DotHtml}
            = {i \in 1..NCat : CatPagePath(i) \in Range(log)}

\* a run completed with a category present and a category absent
C9_Witness ==
    /\ pc = "done"
    /\ \E i \in 1..NCat : tree[i].exists
    /\ \E i \in 1..NCat : ~tree[i].exists

\* C10: a second run of main on the unchanged tree leaves the files of the
\* first run with the same content; no run writes a file that a run reads.
C10_RerunIdempotent ==
    /\ (run = 2 /\ pc = "done") => (docs = firstDocs /\ log = firstLog)
    /\ \A k \in 1..Len(log) : log[k] \notin {<<TemplateTop>>, <<TemplateBottom>>}
    /\ templates_readable(docs) =>
          (docs[<<TemplateTop>>] = TopText /\ docs[<<TemplateBottom>>] = BottomText)

\* the second run completed over a tree with a subfolder page
C10_Witness ==
    /\ run = 2
    /\ pc = "done"
    /\ Len(log) >= 3

====
